---------------------------- MODULE Spec2Model ----------------------------
(***************************************************************************)
(* A model of phylorian's numeric core:                                    *)
(*   - bounded_while_loop.py : bounded_optimize / bounded_while_loop /     *)
(*                             _while_loop  (specification SpecLoop)       *)
(*   - likelihood.py         : padAlignment, subLogLikeForMatrices         *)
(*                             (SpecPrune), the discretized branch-length  *)
(*                             grid (SpecGrid)                             *)
(*   - h20.py                : derivs, transitionMatrixFromCounts,         *)
(*                             transitionMatrix (SpecIndel)                *)
(* Real numbers are exact rationals <<num, den>> with den > 0; <<0, 0>> is *)
(* the floating-point NaN.                                                 *)
(***************************************************************************)
EXTENDS Integers, Sequences, FiniteSets, TLC

VARIABLES
    \* ---- bounded_while_loop.py ----
    score_fun,      \* the caller's score function: state -> score
    update_fun,     \* the caller's update function: state -> state
    init_state,     \* the caller's initial state
    max_steps,      \* the caller's max_steps argument: [int |-> BOOLEAN, v |-> Int]
    min_inc,        \* the caller's threshold, a rational
    lpc,            \* "call" | "running" | "done" | "error"
    val,            \* the loop value (prev_score, (current), (best))
    pred,           \* the predicate carried beside val in _while_loop's data
    stack,          \* the active _while_loop calls, innermost last
    evals,          \* number of run-time evaluations of body_fun
    commits,        \* number of body results kept as the new loop value
    visited,        \* scores of the states that have been the current state
    \* ---- likelihood.py: padAlignment and subLogLike ----
    alignment,          \* the caller's alignment: row -> column -> token
    parentIndex,        \* the caller's parentIndex: row -> row (or -1)
    distanceToParent,   \* the caller's distanceToParent: row -> branch length
    rootProb,           \* the caller's root frequencies, a sequence of A rationals
    nRows, nCols,       \* padAlignment's nRows / nCols arguments (None or a size)
    unpaddedLogLike,    \* what subLogLike returned for the caller's input
    padded,             \* what padAlignment returned
    pass,               \* "unpadded" | "padded": the input subLogLike is running on
    ppc,                \* "call" | "prune" | "pad" | "done"
    likelihood,         \* the pruning tensor: row -> column -> A rationals
    logNorm,            \* the accumulator: column -> log value
    child,              \* the loop variable of the pruning pass
    folded,             \* the (child, parent) pairs processed so far, in order
    \* ---- h20.py: transitionMatrix ----
    indelParams,        \* the caller's (lam, mu, x, y), rationals
    t,                  \* the caller's branch length, a rational
    alphabetSize,       \* the caller's alphabetSize
    step,               \* the solver's step size
    ipc,                \* "call" | "integrate" | "done"
    regime,             \* "zero" | "large" | "small": the matrix jnp.where selects
    ts,                 \* the time the solver has integrated to
    counts,             \* the solver's state (a, b, u, q)
    mx,                 \* transitionMatrixFromCounts' matrix before clipping
    transMat,           \* the matrix transitionMatrix returns
    \* ---- likelihood.py: the discretized branch lengths ----
    discretizationParams,   \* the caller's (tMin, tMax, nSteps)
    gpc,                \* "start" | "table" | "indexed" | "done"
    discreteTimes,      \* entry j of discreteTimeSubMatrix is the matrix of time discreteTimes[j]
    branchLength,       \* the branch length t that is looked up
    discreteIndex,      \* discretizeBranchLength(t, discretizationParams)
    selectedTime        \* the time of the entry the lookup returns

loopVars == <<score_fun, update_fun, init_state, max_steps, min_inc, lpc, val,
              pred, stack, evals, commits, visited>>

pruneVars == <<alignment, parentIndex, distanceToParent, rootProb, nRows, nCols,
               unpaddedLogLike, padded, pass, ppc, likelihood, logNorm, child,
               folded>>

indelVars == <<indelParams, t, alphabetSize, step, ipc, regime, ts, counts, mx,
               transMat>>

gridVars == <<discretizationParams, gpc, discreteTimes, branchLength, discreteIndex,
              selectedTime>>

vars == <<loopVars, pruneVars, indelVars, gridVars>>

---------------------------------------------------------------------------
(* Bounds of the model *)

\* states of the optimised object are 0 .. NStates-1
NStates == 3
\* max_steps ranges over -1 .. 2^MaxLog (and one non-integer)
MaxLog == 2
\* alignments have 2 .. MaxRows rows
MaxRows == 3
\* padAlignment is asked for up to MaxPad rows / columns more than the input has
MaxPad == 1
\* insertion and deletion rates are 0 .. MaxRate per unit of time
MaxRate == 1
\* branch lengths of the indel model are 0, 1/2 and 1 .. MaxT units of time
MaxT == 2
\* the geometric grids have 2 .. MaxGridSteps points
MaxGridSteps == 4

---------------------------------------------------------------------------
(* Arithmetic helpers *)

RECURSIVE Pow(_, _)
Pow(b, e) == IF e = 0 THEN 1 ELSE b * Pow(b, e - 1)

Abs(n) == IF n < 0 THEN 0 - n ELSE n

\* Python's a & b on non-negative integers
RECURSIVE BitAnd(_, _)
BitAnd(a, b) ==
    IF a = 0 \/ b = 0 THEN 0
    ELSE 2 * BitAnd(a \div 2, b \div 2) + (IF a % 2 = 1 /\ b % 2 = 1 THEN 1 ELSE 0)

\* Python's int.bit_length()
RECURSIVE bit_length(_)
bit_length(n) == IF n = 0 THEN 0 ELSE 1 + bit_length(n \div 2)

RECURSIVE GCD(_, _)
GCD(a, b) == IF b = 0 THEN a ELSE GCD(b, a % b)

Sign(n) == IF n > 0 THEN 1 ELSE IF n < 0 THEN 0 - 1 ELSE 0

\* Floating-point values as exact rationals <<n, d>> in lowest terms, d > 0;
\* <<1, 0>> is +inf, <<-1, 0>> is -inf and <<0, 0>> is NaN.
RNorm(n, d) ==
    IF d = 0 THEN <<Sign(n), 0>>
    ELSE LET g == GCD(Abs(n), Abs(d))
         IN  <<Sign(d) * (n \div g), Abs(d) \div g>>

Rat(n) == <<n, 1>>
NaN == <<0, 0>>
IsNaN(a) == a = NaN
IsFinite(a) == a[2] # 0

\* products and sums cancel common factors before they multiply
RMul(a, b) ==
    IF a[2] = 0 \/ b[2] = 0 THEN RNorm(a[1] * b[1], 0)
    ELSE LET g1 == GCD(Abs(a[1]), b[2])
             g2 == GCD(Abs(b[1]), a[2])
         IN  RNorm((a[1] \div g1) * (b[1] \div g2), (a[2] \div g2) * (b[2] \div g1))
RAdd(a, b) ==
    IF a[2] = 0 /\ b[2] = 0
      THEN (IF a = b THEN a ELSE NaN)
    ELSE IF a[2] = 0 THEN a
    ELSE IF b[2] = 0 THEN b
    ELSE LET g == GCD(a[2], b[2])
         IN  RNorm(a[1] * (b[2] \div g) + b[1] * (a[2] \div g), (a[2] \div g) * b[2])
RNeg(a) == <<0 - a[1], a[2]>>
RSub(a, b) == RAdd(a, RNeg(b))
\* 1 / b: 1/0 = +inf, 1/inf = 0, 1/NaN = NaN
RInv(b) ==
    IF IsNaN(b) THEN NaN
    ELSE IF b[2] = 0 THEN Rat(0)
    ELSE IF b[1] = 0 THEN <<1, 0>>
    ELSE <<Sign(b[1]) * b[2], Abs(b[1])>>
RDiv(a, b) == RMul(a, RInv(b))
\* a > b (False when either is NaN)
RGt(a, b) == ~IsNaN(a) /\ ~IsNaN(b) /\ a[1] * b[2] > b[1] * a[2]
RGe(a, b) == ~IsNaN(a) /\ ~IsNaN(b) /\ a[1] * b[2] >= b[1] * a[2]

\* jnp.max over a sequence: NaN if any entry is NaN
RECURSIVE RMaxSeq(_)
RMaxSeq(s) ==
    IF Len(s) = 1 THEN s[1]
    ELSE LET m == RMaxSeq(Tail(s))
         IN  IF IsNaN(s[1]) \/ IsNaN(m) THEN NaN
             ELSE IF RGt(s[1], m) THEN s[1] ELSE m

RECURSIVE RSumSeq(_)
RSumSeq(s) == IF s = <<>> THEN Rat(0) ELSE RAdd(s[1], RSumSeq(Tail(s)))

\* A log value is carried as the number it is the logarithm of: Log(x) stands
\* for log x, with log 0 = -inf, log(+inf) = +inf and log of a negative number
\* or of NaN = NaN. Sums of log values are products of what they stand for.
Log(x) == IF IsNaN(x) \/ RGt(Rat(0), x) THEN NaN ELSE x
LogAdd(u, v) == RMul(u, v)
LogZero == Rat(1)

---------------------------------------------------------------------------
(* bounded_while_loop.py *)

\* a score is -infinity or a finite number
NegInf == [ninf |-> TRUE, v |-> 0]
Fin(n) == [ninf |-> FALSE, v |-> n]

\* a > b on scores
ScoreGt(a, b) == ~a.ninf /\ (b.ninf \/ a.v > b.v)
ScoreGe(a, b) == b.ninf \/ (~a.ninf /\ a.v >= b.v)

LoopStates == 0 .. (NStates - 1)
ScoreValues == {NegInf} \cup {Fin(n) : n \in -1 .. 1}
MinIncValues == {<<1, 1000>>, <<1, 1>>}
\* The states are opaque to the loop, so they are numbered in the order update_fun
\* first reaches them from init_state = 0: update_fun[i] is an earlier state or i + 1.
UpdateFuns == {f \in [LoopStates -> LoopStates] : \A i \in LoopStates : f[i] <= i + 1}
MaxStepsValues ==
    {[int |-> TRUE, v |-> n] : n \in -1 .. Pow(2, MaxLog)} \cup {[int |-> FALSE, v |-> 2]}

\* inc > min_inc, with inc = (current_score - prev_score) / jnp.abs(prev_score)
\* in IEEE arithmetic: inc is NaN when prev_score is -inf or both are 0,
\* -inf when current_score is -inf, and +-inf when only prev_score is 0.
IncGtMinInc(current_score, prev_score, mi) ==
    IF prev_score.ninf THEN FALSE
    ELSE IF current_score.ninf THEN FALSE
    ELSE IF prev_score.v = 0 THEN current_score.v > 0
    ELSE (current_score.v - prev_score.v) * mi[2] > mi[1] * Abs(prev_score.v)

cond_fun(args) ==
    /\ ScoreGt(args.current_score, args.prev_score)
    /\ (args.prev_score.ninf \/ IncGtMinInc(args.current_score, args.prev_score, min_inc))

keep_best_bug(current_score, best_score, a, b) ==
    IF ScoreGt(best_score, current_score) THEN a ELSE b

\* lax.select(current_score > best_score, a, b) over (score, state)
keep_best(current_score, best_score, a, b) ==
    IF ScoreGt(current_score, best_score) THEN a ELSE b

body_fun(args) ==
    LET prev_score    == args.current_score
        current_state == update_fun[args.current_state]
        current_score == score_fun[current_state]
        best == keep_best(current_score, args.best_score,
                          <<current_score, current_state>>,
                          <<args.best_score, args.best_state>>)
    IN  [prev_score |-> prev_score,
         current_score |-> current_score, current_state |-> current_state,
         best_score |-> best[1], best_state |-> best[2]]

\* the init_val bounded_optimize hands to bounded_while_loop
init_val ==
    [prev_score |-> NegInf,
     current_score |-> score_fun[init_state], current_state |-> init_state,
     best_score |-> score_fun[init_state], best_state |-> init_state]

\* isinstance(max_steps, int) and max_steps >= 0
IsNonNegInt(ms) == ms.int /\ ms.v >= 0
IsPowerOfTwo_bug(n) == BitAnd(n, n + 1) = 0

\* max_steps & (max_steps - 1) == 0
IsPowerOfTwo(n) == BitAnd(n, n - 1) = 0

leaf_val_bug(p, v) == body_fun(v)

\* the new_val a one-step _while_loop returns: select(pred, body_fun(val), val)
leaf_val(p, v) == IF p THEN body_fun(v) ELSE v

ScanLength_bug == 2 - 1

\* lax.scan(..., length=2)
ScanLength == 2

\* max_steps // 2
Half(n) == n \div 2

NoVal == [prev_score |-> NegInf, current_score |-> NegInf, current_state |-> 0,
          best_score |-> NegInf, best_state |-> 0]

InitLoop ==
    /\ score_fun \in [LoopStates -> ScoreValues]
    /\ update_fun \in UpdateFuns
    /\ init_state = 0
    /\ max_steps \in MaxStepsValues
    /\ min_inc \in MinIncValues
    /\ lpc = "call"
    /\ val = NoVal
    /\ pred = FALSE
    /\ stack = <<>>
    /\ evals = 0
    /\ commits = 0
    /\ visited = {}

IdleLoop ==
    /\ score_fun = <<>> /\ update_fun = <<>> /\ init_state = 0
    /\ max_steps = [int |-> TRUE, v |-> 0] /\ min_inc = <<0, 1>>
    /\ lpc = "idle" /\ val = NoVal /\ pred = FALSE /\ stack = <<>>
    /\ evals = 0 /\ commits = 0 /\ visited = {}

LoopInputs == <<score_fun, update_fun, init_state, max_steps, min_inc>>

\* bounded_optimize up to and including bounded_while_loop's argument checks
\* and its first evaluation of cond_fun
Call ==
    /\ lpc = "call"
    /\ IF ~IsNonNegInt(max_steps)
         THEN /\ lpc' = "error"
              /\ UNCHANGED <<val, pred, stack, visited>>
       ELSE IF max_steps.v = 0
         THEN /\ lpc' = "done"
              /\ val' = init_val
              /\ visited' = {init_val.current_score}
              /\ UNCHANGED <<pred, stack>>
       ELSE IF ~IsPowerOfTwo(max_steps.v)
         THEN /\ lpc' = "error"
              /\ UNCHANGED <<val, pred, stack, visited>>
       ELSE /\ lpc' = "running"
            /\ val' = init_val
            /\ pred' = cond_fun(init_val)
            /\ stack' = <<[n |-> max_steps.v, k |-> 0]>>
            /\ visited' = {init_val.current_score}
    /\ UNCHANGED <<LoopInputs, evals, commits, pruneVars, indelVars, gridVars>>

Top == stack[Len(stack)]
Pop == SubSeq(stack, 1, Len(stack) - 1)

\* _while_loop with max_steps == 1
Leaf ==
    /\ lpc = "running"
    /\ stack # <<>>
    /\ Top.n = 1
    /\ LET new_val == leaf_val(pred, val)
       IN  /\ val' = new_val
           /\ pred' = cond_fun(new_val)
           /\ commits' = IF pred THEN commits + 1 ELSE commits
           /\ visited' = visited \cup {new_val.current_score}
    /\ evals' = evals + 1
    /\ stack' = Pop
    /\ UNCHANGED <<LoopInputs, lpc, pruneVars, indelVars, gridVars>>

\* one iteration of the scan: lax.cond(_pred, _call, lambda x: x, _data)
ScanIter ==
    /\ lpc = "running"
    /\ stack # <<>>
    /\ Top.n > 1
    /\ Top.k < ScanLength
    /\ LET bumped == [stack EXCEPT ![Len(stack)].k = @ + 1]
       IN  stack' = IF pred THEN Append(bumped, [n |-> Half(Top.n), k |-> 0])
                    ELSE bumped
    /\ UNCHANGED <<LoopInputs, lpc, val, pred, evals, commits, visited, pruneVars, indelVars, gridVars>>

\* the scan is over: _while_loop returns its carry
ScanReturn ==
    /\ lpc = "running"
    /\ stack # <<>>
    /\ Top.n > 1
    /\ Top.k = ScanLength
    /\ stack' = Pop
    /\ UNCHANGED <<LoopInputs, lpc, val, pred, evals, commits, visited, pruneVars, indelVars, gridVars>>

\* bounded_while_loop returns val; bounded_optimize takes its [2] component
Return ==
    /\ lpc = "running"
    /\ stack = <<>>
    /\ lpc' = "done"
    /\ UNCHANGED <<LoopInputs, val, pred, stack, evals, commits, visited, pruneVars, indelVars, gridVars>>

---------------------------------------------------------------------------
(* likelihood.py: padAlignment, subLogLike, subLogLikeForMatrices *)

\* nRows: int = None
None == -1
Rows(al) == Cardinality(DOMAIN al)
Cols(al) == Cardinality(DOMAIN al[0])
\* A = subMatrix.shape[-1] = rootProb.shape[-1]
AlphabetSize == Len(rootProb)

alignmentIsValid(al, asize) ==
    /\ \A r \in DOMAIN al : \A c \in DOMAIN al[r] : al[r][c] >= -1
    /\ \A r \in DOMAIN al : \A c \in DOMAIN al[r] : al[r][c] < asize

treeIsValid(dist, par, alignmentRows) ==
    /\ \A r \in DOMAIN dist : dist[r] >= 0
    /\ \A r \in DOMAIN par : r >= 1 => par[r] >= -1
    /\ \A r \in 0 .. (alignmentRows - 1) : par[r] <= r

\* exp(-d * ln 2)
Exp2Neg(d) == IF d >= 0 THEN <<1, Pow(2, d)>> ELSE <<Pow(2, 0 - d), 1>>

\* expm(subRate * d) for the rate matrix subRate = ln 2 * (J/A - I), the
\* Jukes-Cantor generator over A letters (J the all-ones matrix), for which
\* expm(subRate * d) = e I + (1 - e) J / A with e = exp(-d ln 2) = 2^-d.
expm(d, a) ==
    LET e   == Exp2Neg(d)
        off == RDiv(RSub(Rat(1), e), Rat(a))
    IN  [i \in 1 .. a |-> [j \in 1 .. a |-> IF i = j THEN RAdd(e, off) ELSE off]]

computeSubMatrixForBranchLengths(dist, a) == [r \in DOMAIN dist |-> expm(dist[r], a)]

\* 1 << (len-1).bit_length(), the multiplier == 2 case
padDimension(len) == Pow(2, bit_length(len - 1))

PadToken_bug == 1 - 1

\* the token padAlignment fills with: -1 * jnp.ones(...)
PadToken == -1

padAlignment(al, par, dist, nR, nC) ==
    LET unpaddedRows == Rows(al)
        unpaddedCols == Cols(al)
        nCols_ == IF nC = None THEN padDimension(unpaddedCols) ELSE nC
        nRows_ == IF nR = None THEN padDimension(unpaddedRows) ELSE nR
        al1 == IF nRows_ > unpaddedRows
                 THEN [r \in 0 .. (nRows_ - 1) |->
                         IF r < unpaddedRows THEN al[r]
                         ELSE [c \in 0 .. (unpaddedCols - 1) |-> PadToken]]
                 ELSE al
        dist1 == IF nRows_ > unpaddedRows
                   THEN [r \in 0 .. (nRows_ - 1) |->
                           IF r < unpaddedRows THEN dist[r] ELSE 0]
                   ELSE dist
        par1 == IF nRows_ > unpaddedRows
                  THEN [r \in 0 .. (nRows_ - 1) |->
                          IF r < unpaddedRows THEN par[r] ELSE r]
                  ELSE par
        al2 == IF nCols_ > unpaddedCols
                 THEN [r \in DOMAIN al1 |->
                         [c \in 0 .. (nCols_ - 1) |->
                            IF c < unpaddedCols THEN al1[r][c] ELSE PadToken]]
                 ELSE al1
    IN  [alignment |-> al2, parentIndex |-> par1, distanceToParent |-> dist1]

\* JAX array indexing x[i] on an axis of length n: a negative index counts from
\* the end and an index still out of range is clamped into it
JaxIndex(i, n) ==
    LET w == IF i < 0 THEN i + n ELSE i
    IN  IF w < 0 THEN 0 ELSE IF w > n - 1 THEN n - 1 ELSE w

\* tokenLookup = concatenate([ones(A)[None,:], eye(A)]): row 0 is the gap's
\* all-ones vector, row k the indicator of token k-1
tokenLookup(k, a) ==
    [i \in 1 .. a |-> IF k = 0 \/ i = k THEN Rat(1) ELSE Rat(0)]

\* likelihood = tokenLookup[alignment + 1]
initLikelihood(al, a) ==
    [r \in DOMAIN al |-> [c \in DOMAIN al[r] |->
        tokenLookup(JaxIndex(al[r][c] + 1, a + 1), a)]]

\* jnp.einsum('ij,j->i', m, v) for one column
MatVec(m, v) ==
    [i \in 1 .. Len(v) |-> RSumSeq([j \in 1 .. Len(v) |-> RMul(m[i][j], v[j])])]

\* likelihood[parent] * einsum('ij,cj->ci', subMatrix[child], likelihood[child]),
\* for one column
multiplyColumn(parentVec, m, childVec) ==
    LET prod == MatVec(m, childVec)
    IN  [i \in 1 .. Len(parentVec) |-> RMul(parentVec[i], prod[i])]

\* v / maxLike for one column
divideColumn(v, maxLike) == [i \in 1 .. Len(v) |-> RDiv(v[i], maxLike)]

\* the three updates of one iteration, given the products and their maxima
foldResult(lik, ln, parent, mult, maxLike) ==
    [likelihood |-> [lik EXCEPT ![parent] =
                        [col \in DOMAIN mult |-> divideColumn(mult[col], maxLike[col])]],
     logNorm |-> [col \in DOMAIN ln |-> LogAdd(ln[col], Log(maxLike[col]))]]

foldMax(lik, ln, parent, mult) ==
    foldResult(lik, ln, parent, mult, [col \in DOMAIN mult |-> RMaxSeq(mult[col])])

\* one iteration of the pruning loop, for child c with branch matrix m: returns
\* the new likelihood tensor and accumulator
foldChild(lik, ln, m, par, c) ==
    LET parent == JaxIndex(par[c], Rows(lik))
    IN  foldMax(lik, ln, parent,
                [col \in DOMAIN lik[parent] |->
                    multiplyColumn(lik[parent][col], m, lik[c][col])])

\* logNorm + log(einsum('ci,i->c', likelihood[0], rootProb))
rootTerm(lik, ln, rp) ==
    [col \in DOMAIN ln |->
        LogAdd(ln[col],
               Log(RSumSeq([i \in 1 .. Len(rp) |-> RMul(lik[0][col][i], rp[i])])))]

\* The inputs of the model: trees in preorder over 2 .. MaxRows rows, one
\* alignment column (every operation of the pass is elementwise in the column
\* axis; padding adds further columns), branch lengths 0 and 1, a uniform and a
\* skewed root distribution over two letters.
RowCounts == 2 .. MaxRows
InputCols == 1
Tokens(a) == -1 .. (a - 1)
BranchLengths == {0, 1}
RootProbs == {<<<<1, 2>>, <<1, 2>>>>, <<<<3, 4>>, <<1, 4>>>>}

ValidTrees(r) ==
    {p \in [0 .. (r - 1) -> -1 .. (r - 1)] :
        /\ p[0] = -1
        /\ \A i \in 1 .. (r - 1) : p[i] >= 0 /\ p[i] < i}
ValidDistances(r) ==
    {d \in [0 .. (r - 1) -> BranchLengths] : d[0] = 0}
ValidAlignments(r, a) == [0 .. (r - 1) -> [0 .. (InputCols - 1) -> Tokens(a)]]

\* how a valid input is made malformed: not at all, one token outside
\* [-1, A), one negative branch length, or one parentIndex[i] > i
Corruptions(r, a) ==
    {<<"none", 0, 0>>}
    \cup {<<"token", i, tok>> : i \in 0 .. (r - 1), tok \in {-2, a}}
    \cup {<<"distance", i, -1>> : i \in 1 .. (r - 1)}
    \cup {<<"parent", i, q>> : i \in 1 .. (r - 1), q \in 1 .. (r - 1)}

\* sizes padAlignment is asked for: the default (None: the next power of two)
\* and MaxPad more than the input has
PadSizes(n) == {None, n + MaxPad}

InitPrune ==
    \E r \in RowCounts, rp \in RootProbs :
      \E al \in ValidAlignments(r, Len(rp)), p \in ValidTrees(r),
         d \in ValidDistances(r), x \in Corruptions(r, Len(rp)) :
        /\ (x[1] = "parent" => x[3] > x[2])
        /\ (x[1] # "none" => (rp = <<<<1, 2>>, <<1, 2>>>> /\ \A i \in DOMAIN d : d[i] = 0))
        /\ rootProb = rp
        /\ alignment = IF x[1] = "token"
                         THEN [al EXCEPT ![x[2]] = [c \in DOMAIN al[0] |-> x[3]]]
                         ELSE al
        /\ parentIndex = IF x[1] = "parent" THEN [p EXCEPT ![x[2]] = x[3]] ELSE p
        /\ distanceToParent = IF x[1] = "distance" THEN [d EXCEPT ![x[2]] = x[3]] ELSE d
        /\ nRows = None
        /\ nCols = None
        /\ unpaddedLogLike = <<>>
        /\ padded = <<>>
        /\ pass = "unpadded"
        /\ ppc = "call"
        /\ likelihood = <<>>
        /\ logNorm = <<>>
        /\ child = 0
        /\ folded = <<>>

IdlePrune ==
    /\ alignment = <<>> /\ parentIndex = <<>> /\ distanceToParent = <<>>
    /\ rootProb = <<>> /\ nRows = None /\ nCols = None
    /\ unpaddedLogLike = <<>> /\ padded = <<>> /\ pass = "unpadded"
    /\ ppc = "idle" /\ likelihood = <<>> /\ logNorm = <<>> /\ child = 0
    /\ folded = <<>>

PruneInputs == <<alignment, parentIndex, distanceToParent, rootProb>>

\* the arguments of the running call of subLogLike: the caller's input, then
\* the output of padAlignment
Args ==
    IF pass = "unpadded"
      THEN [alignment |-> alignment, parentIndex |-> parentIndex,
            distanceToParent |-> distanceToParent]
      ELSE padded

\* subLogLike up to the pruning loop: the branch matrices, the pruning tensor
\* and the zero accumulator
SubLogLike ==
    /\ ppc = "call"
    /\ likelihood' = initLikelihood(Args.alignment, AlphabetSize)
    /\ logNorm' = [c \in DOMAIN Args.alignment[0] |-> LogZero]
    /\ child' = Rows(Args.alignment) - 1
    /\ folded' = <<>>
    /\ ppc' = "prune"
    /\ UNCHANGED <<PruneInputs, nRows, nCols, unpaddedLogLike, padded, pass, loopVars, indelVars, gridVars>>

foldInto(f) == likelihood' = f.likelihood /\ logNorm' = f.logNorm

NextChild_bug(c) == c - 2

\* range(R-1, 0, -1): the child after c
NextChild(c) == c - 1

\* one iteration of: for child in range(R-1, 0, -1)
PruneStep ==
    /\ ppc = "prune"
    /\ child >= 1
    /\ LET subMatrix == computeSubMatrixForBranchLengths(Args.distanceToParent,
                                                         AlphabetSize)
       IN  foldInto(foldChild(likelihood, logNorm, subMatrix[child],
                              Args.parentIndex, child))
    /\ folded' = Append(folded,
                        <<child, JaxIndex(Args.parentIndex[child], Rows(likelihood))>>)
    /\ child' = NextChild(child)
    /\ UNCHANGED <<PruneInputs, nRows, nCols, unpaddedLogLike, padded, pass, ppc,
                   loopVars, indelVars, gridVars>>

\* the loop is over: the root term is added and logNorm returned
RootStep ==
    /\ ppc = "prune"
    /\ child < 1
    /\ logNorm' = rootTerm(likelihood, logNorm, rootProb)
    /\ IF pass = "unpadded"
         THEN /\ unpaddedLogLike' = logNorm'
              /\ ppc' = "pad"
         ELSE /\ ppc' = "done"
              /\ UNCHANGED unpaddedLogLike
    /\ UNCHANGED <<PruneInputs, nRows, nCols, padded, pass, likelihood, child, folded,
                   loopVars, indelVars, gridVars>>

\* the caller pads the input it got a log-likelihood for, if that input is a
\* tree in preorder with tokens in [-1, A) and non-negative branch lengths, and
\* calls subLogLike on the result
PadAlignment ==
    /\ ppc = "pad"
    /\ alignmentIsValid(alignment, AlphabetSize)
    /\ treeIsValid(distanceToParent, parentIndex, Rows(alignment))
    /\ \E nR \in PadSizes(Rows(alignment)), nC \in PadSizes(Cols(alignment)) :
         /\ nRows' = nR
         /\ nCols' = nC
         /\ padded' = padAlignment(alignment, parentIndex, distanceToParent, nR, nC)
    /\ pass' = "padded"
    /\ ppc' = "call"
    /\ UNCHANGED <<PruneInputs, unpaddedLogLike, likelihood, logNorm, child, folded,
                   loopVars, indelVars, gridVars>>

---------------------------------------------------------------------------
(* h20.py: the indel transition matrix *)
(* Time is measured in units of tMin (1e-3); rates are per unit of time.   *)
(* Every quantity of the module depends on rate * time only.               *)

\* jnp.finfo('float32').smallest_normal, 2^-126: the model's integers are 32
\* bits wide, and it holds the smallest positive value they can resolve.
smallest_float32 == <<1, Pow(2, 30)>>

\* tMin = 1e-3, one unit of time
tMin == 1

\* jnp.exp(-z) for z >= 0. The exponential of a rational is not a rational:
\* the model computes the approximant 1/(1+z), which like exp(-z) is 1 at
\* z = 0 and positive, below 1 and decreasing for z > 0.
ExpNeg(z) == RDiv(Rat(1), RAdd(Rat(1), z))

\* exp(-rate * t / (1 - prob))
lm(time, rate, prob) == ExpNeg(RDiv(RMul(rate, time), RSub(Rat(1), prob)))

\* 1 / lm - 1
indels(time, rate, prob) == RSub(RDiv(Rat(1), lm(time, rate, prob)), Rat(1))

RMul3(a, b, c) == RMul(a, RMul(b, c))

\* the four derivatives, given L, M, num, unsafe_denom and one_minus_m
derivsOf(ip, c, L, M, num, unsafe_denom, one_minus_m) ==
    LET lam == ip[1]
        mu == ip[2]
        y == ip[4]
        a == c[1]
        b == c[2]
        u == c[3]
        q == c[4]
        denom == IF RGt(unsafe_denom, Rat(0)) THEN unsafe_denom ELSE Rat(1)
    IN  IF RGt(unsafe_denom, Rat(0))
          THEN << RSub(RDiv(RMul3(RMul3(mu, b, u), RMul(L, M), RSub(Rat(1), y)), denom),
                       RMul(RAdd(lam, mu), a)),
                  RAdd(RDiv(RMul3(RNeg(b), num, L), denom), RMul(lam, RSub(Rat(1), b))),
                  RAdd(RDiv(RMul3(RNeg(u), num, L), denom), RMul(lam, a)),
                  RDiv(RSub(RDiv(RMul(RSub(RMul(M, RSub(Rat(1), L)),
                                           RMul3(q, L, RSub(Rat(1), M))), num), denom),
                            RDiv(RMul(q, lam), RSub(Rat(1), y))),
                       one_minus_m) >>
          ELSE << RSub(RNeg(lam), mu), lam, lam, Rat(0) >>

derivs(time, c, ip) ==
    LET lam == ip[1]
        mu == ip[2]
        x == ip[3]
        y == ip[4]
        b == c[2]
        q == c[4]
        L == lm(time, lam, x)
        M == lm(time, mu, y)
        num == RMul(mu, RAdd(RMul(b, M), RMul(q, RSub(Rat(1), M))))
        unsafe_denom ==
            RAdd(RAdd(RMul(M, RSub(Rat(1), y)), RMul3(L, q, y)),
                 RMul3(L, M, RSub(RMul(y, RSub(RAdd(Rat(1), b), q)), Rat(1))))
        one_minus_m == IF RGt(Rat(1), M) THEN RSub(Rat(1), M) ELSE smallest_float32
    IN  derivsOf(ip, c, L, M, num, unsafe_denom, one_minus_m)

initCounts == <<Rat(1), Rat(0), Rat(0), Rat(0)>>

\* kappa = 2.
kappa == 2

\* lhs > k * asize ** (p/q) for asize > 1 and p/q > 0, i.e.
\* lhs^q > k^q * asize^p; decided without the powers when lhs <= k, and when
\* p/q <= 2 and lhs > k * asize^2
GtKappaPow(lhs, k, asize, p, q) ==
    IF RGe(Rat(k), lhs) THEN FALSE
    ELSE IF p <= 2 * q /\ RGt(lhs, Rat(k * asize * asize)) THEN TRUE
    ELSE Pow(lhs[1], q) > Pow(lhs[2], q) * Pow(k, q) * Pow(asize, p)

alignmentIsProbablyUndetectable(time, ip, asize) ==
    LET lam == ip[1]
        mu == ip[2]
        x == ip[3]
        y == ip[4]
        \* 1 / (1 - exp(-mu t)): +inf when mu t = 0
        expectedMatchRunLength == RDiv(Rat(1), RSub(Rat(1), ExpNeg(RMul(mu, time))))
        expectedInsertions == indels(time, lam, x)
        expectedDeletions == indels(time, mu, y)
        lhs == RMul(RAdd(expectedInsertions, Rat(1)), RAdd(expectedDeletions, Rat(1)))
    IN  IF RGt(time, Rat(0))
          THEN IF ~IsFinite(expectedMatchRunLength)
                 THEN FALSE     \* alphabetSize ** inf = inf
                 ELSE GtKappaPow(lhs, kappa, asize, expectedMatchRunLength[1],
                                 expectedMatchRunLength[2])
          ELSE FALSE

zeroTimeTransitionMatrix(ip) ==
    LET x == ip[3]
        y == ip[4]
    IN  << <<Rat(1), Rat(0), Rat(0)>>,
           <<RSub(Rat(1), x), x, Rat(0)>>,
           <<RSub(Rat(1), y), Rat(0), y>> >>

largeTimeTransitionMatrix(time, ip) ==
    LET g == RSub(Rat(1), lm(time, ip[1], ip[3]))
        r == RSub(Rat(1), lm(time, ip[2], ip[4]))
        row == <<RMul(RSub(Rat(1), g), RSub(Rat(1), r)), g, RMul(RSub(Rat(1), g), r)>>
    IN  <<row, row, <<RSub(Rat(1), r), Rat(0), r>> >>

\* the matrix of transitionMatrixFromCounts before clipping
countsMatrix(time, ip, c) ==
    LET a == c[1]
        b == c[2]
        u == c[3]
        q == c[4]
        L == lm(time, ip[1], ip[3])
        M == lm(time, ip[2], ip[4])
        one_minus_L == IF RGt(Rat(1), L) THEN RSub(Rat(1), L) ELSE smallest_float32
        one_minus_M == IF RGt(Rat(1), M) THEN RSub(Rat(1), M) ELSE smallest_float32
        LoL == RDiv(L, one_minus_L)
        MoM == RDiv(M, one_minus_M)
        \* b + q*(1-M)/M
        bq == RAdd(b, RDiv(RMul(q, RSub(Rat(1), M)), M))
        \* (1-a-u)*M/one_minus_M
        p == RMul(RSub(RSub(Rat(1), a), u), MoM)
    IN  << <<a, b, RSub(RSub(Rat(1), a), b)>>,
           <<RMul(u, LoL), RSub(Rat(1), RMul(bq, LoL)), RMul(RSub(bq, u), LoL)>>,
           <<p, q, RSub(RSub(Rat(1), q), p)>> >>

clip_bug(v) == v

\* jnp.maximum(0, v)
clip(v) == IF RGt(Rat(0), v) THEN Rat(0) ELSE v

\* mx = jnp.maximum(0, mx); mx / jnp.sum(mx, axis=-1, keepdims=True)
normalize(m) ==
    [i \in 1 .. 3 |->
        LET row == [j \in 1 .. 3 |-> clip(m[i][j])]
        IN  [j \in 1 .. 3 |-> RDiv(row[j], RSumSeq(row))]]

transitionMatrixFromCounts(time, ip, c) == normalize(countsMatrix(time, ip, c))

\* tSafe = jnp.maximum(t, tMin)
tSafe == IF RGt(Rat(tMin), t) THEN Rat(tMin) ELSE t

IndelParamValues ==
    {<<Rat(l), Rat(m), x, y>> : l \in 0 .. MaxRate, m \in 0 .. MaxRate,
                                x \in {Rat(0), <<1, 2>>}, y \in {Rat(0), <<1, 2>>}}
TimeValues == {Rat(0), <<1, 2>>} \cup {Rat(n) : n \in 1 .. MaxT}
AlphabetSizes == {2, 4}
StepSizes == {<<1, 2>>, Rat(1)}

NoMatrix == <<>>

InitIndel ==
    /\ indelParams \in IndelParamValues
    /\ t \in TimeValues
    /\ alphabetSize \in AlphabetSizes
    /\ step \in StepSizes
    /\ ipc = "call"
    /\ regime = "none"
    /\ ts = Rat(0)
    /\ counts = initCounts
    /\ mx = NoMatrix
    /\ transMat = NoMatrix

IdleIndel ==
    /\ indelParams = <<>> /\ t = Rat(0) /\ alphabetSize = 0 /\ step = Rat(0)
    /\ ipc = "idle" /\ regime = "none" /\ ts = Rat(0) /\ counts = initCounts
    /\ mx = NoMatrix /\ transMat = NoMatrix

IndelInputs == <<indelParams, t, alphabetSize, step>>

\* transitionMatrix for t = 0: the zero-time matrix is selected
ZeroTime ==
    /\ ipc = "call"
    /\ ~RGt(t, Rat(0))
    /\ regime' = "zero"
    /\ transMat' = zeroTimeTransitionMatrix(indelParams)
    /\ ipc' = "done"
    /\ UNCHANGED <<IndelInputs, ts, counts, mx, loopVars, pruneVars, gridVars>>

\* transitionMatrix for t > 0 past the detectability threshold: the limiting
\* matrix is selected
LargeTime ==
    /\ ipc = "call"
    /\ RGt(t, Rat(0))
    /\ alignmentIsProbablyUndetectable(tSafe, indelParams, alphabetSize)
    /\ regime' = "large"
    /\ transMat' = largeTimeTransitionMatrix(tSafe, indelParams)
    /\ ipc' = "done"
    /\ UNCHANGED <<IndelInputs, ts, counts, mx, loopVars, pruneVars, gridVars>>

\* transitionMatrix for t > 0 otherwise: smallTimeTransitionMatrix starts the
\* solver at time 0 from initCounts
SmallTime ==
    /\ ipc = "call"
    /\ RGt(t, Rat(0))
    /\ ~alignmentIsProbablyUndetectable(tSafe, indelParams, alphabetSize)
    /\ regime' = "small"
    /\ ts' = Rat(0)
    /\ counts' = initCounts
    /\ ipc' = "integrate"
    /\ UNCHANGED <<IndelInputs, mx, transMat, loopVars, pruneVars, gridVars>>

\* one explicit step of the solver: counts + dt * derivs(ts, counts)
SolverStep ==
    /\ ipc = "integrate"
    /\ RGt(tSafe, ts)
    /\ LET rest == RSub(tSafe, ts)
           dt == IF RGt(step, rest) THEN rest ELSE step
           d == derivs(ts, counts, indelParams)
       IN  /\ counts' = [i \in 1 .. 4 |-> RAdd(counts[i], RMul(dt, d[i]))]
           /\ ts' = RAdd(ts, dt)
    /\ UNCHANGED <<IndelInputs, ipc, regime, mx, transMat, loopVars, pruneVars, gridVars>>

\* the solver has reached tSafe: transitionMatrixFromCounts
FromCounts ==
    /\ ipc = "integrate"
    /\ ~RGt(tSafe, ts)
    /\ mx' = countsMatrix(tSafe, indelParams, counts)
    /\ transMat' = transitionMatrixFromCounts(tSafe, indelParams, counts)
    /\ ipc' = "done"
    /\ UNCHANGED <<IndelInputs, regime, ts, counts, loopVars, pruneVars, gridVars>>

---------------------------------------------------------------------------
(* likelihood.py: discretized branch lengths *)
(* Grid times are integers: tMin is 1 or 2 units and the grid's ratio is 2 *)
(* or 3, so that every point of jnp.geomspace is exact.                    *)

\* jnp.geomspace(lo, hi, n): n points from lo to hi in geometric progression,
\* indexed from 0
geomspace(lo, hi, n) ==
    LET ratio == CHOOSE r \in 1 .. hi : lo * Pow(r, n - 1) = hi
    IN  [k \in 0 .. (n - 1) |-> lo * Pow(ratio, k)]

\* jnp.digitize(x, bins) for increasing bins: the i with
\* bins[i-1] <= x < bins[i], i.e. the number of bins that are <= x
digitize(x, bins) == Cardinality({k \in DOMAIN bins : bins[k] <= x})

\* jnp.clip(x, lo, hi)
jnp_clip(x, lo, hi) == IF x < lo THEN lo ELSE IF x > hi THEN hi ELSE x

\* (tMin, tMax, nSteps) = (1e-3, 10, 400): in the model's units the grid of
\* 4 points 1, 2, 4, 8
defaultDiscretizationParams == <<1, 8, 4>>

\* concat([0], geomspace(tMin, tMax, nSteps)), indexed from 0
getDiscretizedTimes(params) ==
    LET g == geomspace(params[1], params[2], params[3])
    IN  [j \in 0 .. params[3] |-> IF j = 0 THEN 0 ELSE g[j - 1]]

\* the table has one entry per discretized time, in the same order
computeSubMatrixForDiscretizedTimes(params) == getDiscretizedTimes(params)

discretizeBranchLength(time, params) ==
    IF time = 0 THEN 0
    ELSE 1 + digitize(jnp_clip(time, params[1], params[2]),
                      geomspace(params[1], params[2], params[3]))

\* discreteTimeSubMatrix[..., discretizeBranchLength(t), :, :]: the index is
\* computed with the default parameters
computeSubMatrixForDiscretizedBranchLengths(time, table) ==
    table[JaxIndex(discretizeBranchLength(time, defaultDiscretizationParams),
                   Cardinality(DOMAIN table))]

GridParams ==
    {<<lo, lo * Pow(r, n - 1), n>> : lo \in {1, 2}, r \in {2, 3}, n \in 2 .. MaxGridSteps}

\* branch lengths from 0 to one past tMax
BranchLengthsOf(params) == 0 .. (params[2] + 1)

NoTime == -1

InitGrid ==
    /\ discretizationParams \in GridParams
    /\ gpc = "start"
    /\ discreteTimes = <<>>
    /\ branchLength = NoTime
    /\ discreteIndex = NoTime
    /\ selectedTime = NoTime

IdleGrid ==
    /\ discretizationParams = <<>>
    /\ gpc = "idle"
    /\ discreteTimes = <<>>
    /\ branchLength = NoTime
    /\ discreteIndex = NoTime
    /\ selectedTime = NoTime

\* computeSubMatrixForDiscretizedTimes builds the table
ComputeTable ==
    /\ gpc = "start"
    /\ discreteTimes' = computeSubMatrixForDiscretizedTimes(discretizationParams)
    /\ gpc' = "table"
    /\ UNCHANGED <<discretizationParams, branchLength, discreteIndex, selectedTime,
                   loopVars, pruneVars, indelVars>>

\* discretizeBranchLength(t, discretizationParams) for a branch length t
DiscretizeBranchLength ==
    /\ gpc = "table"
    /\ \E time \in BranchLengthsOf(discretizationParams) :
          /\ branchLength' = time
          /\ discreteIndex' = discretizeBranchLength(time, discretizationParams)
    /\ gpc' = "indexed"
    /\ UNCHANGED <<discretizationParams, discreteTimes, selectedTime,
                   loopVars, pruneVars, indelVars>>

\* computeSubMatrixForDiscretizedBranchLengths(t, discreteTimeSubMatrix,
\* discretizationParams) for the same branch length
LookupBranchLength ==
    /\ gpc = "indexed"
    /\ selectedTime' = computeSubMatrixForDiscretizedBranchLengths(branchLength, discreteTimes)
    /\ gpc' = "done"
    /\ UNCHANGED <<discretizationParams, discreteTimes, branchLength, discreteIndex,
                   loopVars, pruneVars, indelVars>>

---------------------------------------------------------------------------
(* Specifications *)

NextLoop == Call \/ Leaf \/ ScanIter \/ ScanReturn \/ Return

StartLoop == InitLoop /\ IdlePrune /\ IdleIndel /\ IdleGrid

SpecLoop == StartLoop /\ [][NextLoop]_vars

NextPrune == PadAlignment \/ SubLogLike \/ PruneStep \/ RootStep

StartPrune == InitPrune /\ IdleLoop /\ IdleIndel /\ IdleGrid

SpecPrune == StartPrune /\ [][NextPrune]_vars

NextIndel == ZeroTime \/ LargeTime \/ SmallTime \/ SolverStep \/ FromCounts

StartIndel == InitIndel /\ IdleLoop /\ IdlePrune /\ IdleGrid

SpecIndel == StartIndel /\ [][NextIndel]_vars

NextGrid == ComputeTable \/ DiscretizeBranchLength \/ LookupBranchLength

StartGrid == InitGrid /\ IdleLoop /\ IdlePrune /\ IdleIndel

SpecGrid == StartGrid /\ [][NextGrid]_vars

---------------------------------------------------------------------------
(* Properties of bounded_optimize / bounded_while_loop *)

\* max_steps is an integer power of two >= 1
ValidPositive == max_steps.int /\ max_steps.v \in {Pow(2, k) : k \in 0 .. (MaxLog + 1)}
Finished == lpc = "done" /\ ValidPositive

\* the plain loop: apply body_fun while cond_fun holds, at most n times
RECURSIVE PlainWhile(_, _)
PlainWhile(v, n) ==
    IF n = 0 \/ ~cond_fun(v) THEN v ELSE PlainWhile(body_fun(v), n - 1)

RECURSIVE PlainCount(_, _)
PlainCount(v, n) ==
    IF n = 0 \/ ~cond_fun(v) THEN 0 ELSE 1 + PlainCount(body_fun(v), n - 1)

\* C1: the best score the loop carries, and bounded_optimize returns, is >= the
\* score of the initial state and >= the score of every state that has been the
\* current state of the loop; the best state has the best score.
C1_BestDominatesVisited ==
    lpc \in {"running", "done"} =>
        /\ ScoreGe(val.best_score, score_fun[init_state])
        /\ \A s \in visited : ScoreGe(val.best_score, s)
        /\ val.best_score = score_fun[val.best_state]

\* a finished run of two kept iterations whose best is neither its first nor its
\* last state
C1_Witness ==
    /\ Finished
    /\ commits >= 2
    /\ ScoreGt(val.best_score, val.current_score)
    /\ ScoreGt(val.best_score, score_fun[init_state])

\* C2: max_steps = 0 returns the initial (score, state) unchanged without any
\* evaluation of update; a max_steps that is negative, not an integer, or a
\* positive non-power of two ends in an error with no loop value produced.
C2_ZeroAndInvalidMaxSteps ==
    lpc # "call" =>
        /\ (max_steps.int /\ max_steps.v = 0) =>
               (lpc = "done" /\ val = init_val /\ evals = 0 /\ commits = 0)
        /\ (~max_steps.int \/ max_steps.v < 0
               \/ (max_steps.v > 0 /\ ~ValidPositive)) =>
               (lpc = "error" /\ val = NoVal /\ evals = 0 /\ commits = 0)
        /\ ValidPositive => lpc # "error"

\* the call with max_steps = 3 has raised
C2_Witness == lpc = "error" /\ max_steps.int /\ max_steps.v = 3

C9_EqualsPlainWhile ==
    /\ lpc = "running" => pred = cond_fun(val)
    /\ Finished =>
        /\ val = PlainWhile(init_val, max_steps.v)
        /\ commits = PlainCount(init_val, max_steps.v)
        /\ (cond_fun(val) => commits = max_steps.v)

\* a run with max_steps = 4 that stopped on a false predicate after 3 iterations
C9_Witness == Finished /\ max_steps.v = 4 /\ commits = 3 /\ ~cond_fun(val)

\* C10 as claimed: whatever the initial state and threshold, the first
\* iteration takes effect: the predicate is true on the initial loop value and a
\* finished run with max_steps >= 1 has kept at least one result of update.
C10_FirstIterationTakesEffect ==
    /\ (lpc = "running" /\ evals = 0) => pred
    /\ Finished => commits >= 1


---------------------------------------------------------------------------
(* Properties of padAlignment / subLogLike *)

\* the caller's input is an alignment over [-1, A) on a tree in preorder with
\* non-negative branch lengths
InputValid ==
    /\ ppc # "idle"
    /\ alignmentIsValid(alignment, AlphabetSize)
    /\ treeIsValid(distanceToParent, parentIndex, Rows(alignment))
    /\ parentIndex[0] = -1
    /\ \A i \in 1 .. (Rows(alignment) - 1) : parentIndex[i] >= 0 /\ parentIndex[i] < i

\* C3: for a valid input, the pruning pass on the output of padAlignment gives
\* each original column the log-likelihood subLogLike gives it on the unpadded
\* input and each appended column the log-likelihood 0; and the iteration of
\* the pass for a padding row changes no likelihood row other than its own and
\* leaves the accumulator unchanged.
C3_PaddingInvariance ==
    /\ []((pass = "padded" /\ InputValid) =>
            /\ \A r \in DOMAIN padded.alignment : \A c \in DOMAIN padded.alignment[r] :
                  padded.alignment[r][c] =
                     (IF r < Rows(alignment) /\ c < Cols(alignment)
                        THEN alignment[r][c] ELSE -1)
            /\ \A r \in DOMAIN padded.parentIndex :
                  /\ padded.parentIndex[r] = (IF r < Rows(alignment) THEN parentIndex[r] ELSE r)
                  /\ padded.distanceToParent[r] =
                        (IF r < Rows(alignment) THEN distanceToParent[r] ELSE 0))
    /\ []((ppc = "done" /\ InputValid) =>
            \A col \in DOMAIN logNorm :
               IF col < Cols(alignment)
                 THEN logNorm[col] = unpaddedLogLike[col]
                 ELSE logNorm[col] = LogZero)
    /\ [][(ppc = "prune" /\ InputValid /\ child >= Rows(alignment)) =>
            /\ \A r \in DOMAIN likelihood : r # child => likelihood'[r] = likelihood[r]
            /\ logNorm' = logNorm]_vars

\* a finished pass over an input that got a padding row and a padding column
\* and whose original column has a likelihood other than 0 and 1
C3_Witness ==
    /\ ppc = "done"
    /\ InputValid
    /\ Rows(padded.alignment) > Rows(alignment)
    /\ Cols(padded.alignment) > Cols(alignment)
    /\ IsFinite(logNorm[0])
    /\ logNorm[0] # Rat(1)
    /\ logNorm[0] # Rat(0)

\* C7 as claimed: a call of subLogLike that returns a log-likelihood was given
\* tokens in [-1, A), non-negative branch lengths and parentIndex[i] <= i.
C7_MalformedInputRejected ==
    unpaddedLogLike # <<>> =>
        /\ alignmentIsValid(alignment, AlphabetSize)
        /\ treeIsValid(distanceToParent, parentIndex, Rows(alignment))

---------------------------------------------------------------------------
(* Properties of the indel transition matrix *)

ClippedRowSum(row) == RSumSeq([j \in 1 .. 3 |-> IF RGt(Rat(0), row[j]) THEN Rat(0) ELSE row[j]])

\* C4: in every regime (zero-time, asymptotic, integrated) every row of the
\* matrix transitionMatrix returns sums to 1 and has no negative entry; in
\* the integrated regime every row sums to 1 before clipping, so the sum of
\* the clipped row, by which the row is divided, is strictly positive.
C4_RowsAreDistributions ==
    ipc = "done" =>
        /\ regime \in {"zero", "large", "small"}
        /\ \A i \in 1 .. 3 :
              /\ RSumSeq(transMat[i]) = Rat(1)
              /\ \A j \in 1 .. 3 : RGe(transMat[i][j], Rat(0))
        /\ regime = "small" =>
              \A i \in 1 .. 3 :
                  /\ RSumSeq(mx[i]) = Rat(1)
                  /\ RGt(ClippedRowSum(mx[i]), Rat(0))

\* the integrated regime has returned a matrix whose pre-clip form had a
\* negative entry, after the solver took a step past time 0
C4_Witness ==
    /\ ipc = "done"
    /\ regime = "small"
    /\ RGt(tSafe, step)
    /\ \E i \in 1 .. 3 : \E j \in 1 .. 3 : RGt(Rat(0), mx[i][j])

\* C5: with (lambda, mu, x, y) = (0, 0, 0, 0) and t > 0, transitionMatrix
\* returns [[1,0,0],[1,0,0],[1,0,0]].
C5_NoIndelActivityMatrix ==
    (ipc = "done" /\ indelParams = <<Rat(0), Rat(0), Rat(0), Rat(0)>> /\ RGt(t, Rat(0))) =>
        transMat = << <<Rat(1), Rat(0), Rat(0)>>,
                      <<Rat(1), Rat(0), Rat(0)>>,
                      <<Rat(1), Rat(0), Rat(0)>> >>

---------------------------------------------------------------------------
(* Properties of the discretized branch lengths *)

OnGrid(time) == \E j \in DOMAIN discreteTimes : j >= 1 /\ discreteTimes[j] = time

\* C6: the index discretizeBranchLength returns is a valid index of the
\* table; for t = 0 it is index 0; and for t on a point g_k of the geometric
\* grid it is the index of the entry computed for g_k.
C6_GridPointSelectsItsEntry ==
    gpc \in {"indexed", "done"} =>
        /\ discreteIndex \in DOMAIN discreteTimes
        /\ branchLength = 0 => discreteIndex = 0
        /\ OnGrid(branchLength) => discreteTimes[discreteIndex] = branchLength

---------------------------------------------------------------------------
(* The order of the pruning pass *)

\* the pruning loop of the running call has started, on a valid input or on
\* the output of padAlignment for one; folded is the loop's history
InPruningPass == ppc \in {"prune", "pad", "done"} /\ InputValid

PruneRows == Rows(Args.alignment)

\* the k-th iteration handled node R-k and folded it into parentIndex[R-k];
\* the loop has made R-1-child iterations, R-1 when it is over
VisitedInIndexOrder ==
    /\ \A k \in 1 .. Len(folded) :
          folded[k] = <<PruneRows - k, Args.parentIndex[PruneRows - k]>>
    /\ ppc = "prune" => (child >= 0 /\ Len(folded) = PruneRows - 1 - child)
    /\ ppc \in {"pad", "done"} => Len(folded) = PruneRows - 1

RootNeverChild == \A k \in 1 .. Len(folded) : folded[k][1] # 0

\* no node is folded twice, and when the loop is over every node 1 .. R-1 has
\* been folded into its parent once
FoldedExactlyOnce ==
    /\ \A c \in 1 .. (PruneRows - 1) :
          Cardinality({k \in 1 .. Len(folded) : folded[k][1] = c}) <= 1
    /\ ppc \in {"pad", "done"} =>
          \A c \in 1 .. (PruneRows - 1) :
              Cardinality({k \in 1 .. Len(folded) :
                              folded[k] = <<c, Args.parentIndex[c]>>}) = 1

\* node d was folded into c before the k-th iteration
FoldedBefore(d, c, k) == \E j \in 1 .. (k - 1) : folded[j] = <<d, c>>

\* C11 as claimed: nodes are visited in index order R-1 down to 1, node 0 is
\* never a child, each node is folded into its parent exactly once, and when
\* node c is folded every node whose parent is c has already been folded
\* into c.
C11_ChildrenFoldedFirst ==
    InPruningPass =>
        /\ VisitedInIndexOrder
        /\ RootNeverChild
        /\ FoldedExactlyOnce
        /\ \A k \in 1 .. Len(folded) : \A d \in 0 .. (PruneRows - 1) :
              Args.parentIndex[d] = folded[k][1] => FoldedBefore(d, folded[k][1], k)

\* C11: nodes are visited in index order R-1 down to 1, node 0 is never a
\* child, each node is folded into its parent exactly once, and when node c
\* is folded every other node whose parent is c has already been folded into
\* c (a padding row is its own parent and is folded into itself).
C11_OtherChildrenFoldedFirst ==
    InPruningPass =>
        /\ VisitedInIndexOrder
        /\ RootNeverChild
        /\ FoldedExactlyOnce
        /\ \A k \in 1 .. Len(folded) : \A d \in 0 .. (PruneRows - 1) :
              (d # folded[k][1] /\ Args.parentIndex[d] = folded[k][1])
                  => FoldedBefore(d, folded[k][1], k)

\* a finished pass over a padded chain 0 <- 1 <- 2: node 1 has a child, and a
\* padding row was folded into itself
C11_Witness ==
    /\ ppc = "done"
    /\ InputValid
    /\ Rows(padded.alignment) > Rows(alignment)
    /\ \E d \in 2 .. (Rows(alignment) - 1) : parentIndex[d] >= 1
    /\ \E k \in 1 .. Len(folded) : folded[k][1] = folded[k][2]
    /\ Len(folded) = Rows(padded.alignment) - 1

=========================================================================
